---- MODULE Spec2Model ----
(***************************************************************************)
(* A model of the Molty Royale bot (src/bot.py): the RegionMemory score    *)
(* accumulator, the DecisionEngine priority policy and its win-probability *)
(* model.                                                                   *)
(*                                                                          *)
(* Numbers.  The program computes in floating point.  The model computes   *)
(* the same expressions exactly: region scores are integers in tenths      *)
(* (1.0 is 10), probabilities of the step functions are percents, and every *)
(* other quotient is an exact rational <<n, d>> with d > 0 in lowest terms. *)
(* Python's None is the empty sequence, and Optional[X] a sequence of at    *)
(* most one X.                                                              *)
(***************************************************************************)
EXTENDS Integers, Sequences, FiniteSets, TLC

VARIABLES
    _rvs,          \* RegionMemory._rvs: region -> score, in insertion order
    _explores,     \* RegionMemory._explores: region -> count (0 when absent)
    _loot_found,   \* RegionMemory._loot_found: region -> total (0 when absent)
    gs,            \* the GameState snapshot handed to decide
    action,        \* the dict decide returned last
    candidates,    \* the argument of the last best_region call
    best,          \* what the last best_region call returned
    enemy,         \* the Enemy argument of the last _win_prob call
    wp,            \* what the last _win_prob call returned
    call,          \* the last call made: of a single-call specification, or the
                   \* API call whose reply the driving loop took last (with the
                   \* reply itself for a state poll that got one)
    pc,            \* where the coroutine MoltyBot.start is suspended
    session,       \* MoltyBot.session: "none", "open" or "closed"
    room_id,       \* MoltyBot.room_id
    match_id,      \* MoltyBot.match_id
    err_streak,    \* MoltyBot.err_streak
    stat_matches,  \* MoltyBot.stat_matches
    rid,           \* the local rid of _phase_room while join_room is awaited
    signal,        \* a shutdown signal has cancelled the task
    inflight,      \* the API calls that were started and have not completed
    decides,       \* decide calls since the last get_state was started
    sends          \* send_action calls since the last get_state was started

\* the variables of the driving loop
loop_vars == <<pc, session, room_id, match_id, err_streak, stat_matches, rid, signal,
               inflight, decides, sends>>

vars == <<_rvs, _explores, _loot_found, gs, action, candidates, best, enemy, wp, call,
          loop_vars>>

----------------------------------------------------------------------------
\* Exact rationals <<n, d>>, d > 0, in lowest terms.

Abs(a) == IF a < 0 THEN -a ELSE a

RECURSIVE GCD(_, _)
GCD(a, b) == IF b = 0 THEN a ELSE GCD(b, a % b)

Rat(n, d) ==
    LET s == IF d < 0 THEN -1 ELSE 1
        g == GCD(Abs(n), Abs(d))
    IN  <<(s * n) \div g, (s * d) \div g>>

RInt(a) == <<a, 1>>
RMul(p, q) == Rat(p[1] * q[1], p[2] * q[2])
RDiv(p, q) == Rat(p[1] * q[2], p[2] * q[1])
RAdd(p, q) == Rat(p[1] * q[2] + q[1] * p[2], p[2] * q[2])
RSub(p, q) == Rat(p[1] * q[2] - q[1] * p[2], p[2] * q[2])
RLt(p, q) == p[1] * q[2] < q[1] * p[2]
RLe(p, q) == p[1] * q[2] <= q[1] * p[2]
RMax(p, q) == IF RLt(p, q) THEN q ELSE p
RMin(p, q) == IF RLt(q, p) THEN q ELSE p

Max(a, b) == IF a < b THEN b ELSE a
Min(a, b) == IF b < a THEN b ELSE a

----------------------------------------------------------------------------
\* Constants (src/bot.py:73-109).  Scores are in tenths, probabilities in
\* percent.

WIN_PROB_ENGAGE == 60
ESCAPE_PROB_MAX == 40
WEAPON_UPGRADE_PCT == 15
SAFE_PATH_MIN == 65
ZONE_CHASE_MAX_SEC == 3
ZONE_ESCAPE_MIN == 75
HP_USE_HEAL == 60
HP_DISENGAGE == 35
HP_ZONE_ABORT == 60
MAX_HEAL_PER_TYPE == 3
RVS_BASE == 10
RVS_FLOOR == 5
RVS_HIGH_WEAPON == 3
RVS_KILL == 2
RVS_FAIL_EXPLORE == -3
RVS_ZONE_PRONE == -5
RVS_AMBUSH == -2

\* TIER_MULT.get(tier.lower(), 1.0), in tenths; the model's tier names are
\* lower case.
TIER_MULT(tier) ==
    CASE tier = "legendary" -> 30
      [] tier = "epic"      -> 22
      [] tier = "rare"      -> 15
      [] tier = "uncommon"  -> 12
      [] tier = "common"    -> 10
      [] tier = "fists"     -> 3
      [] OTHER              -> 10

HEAL_PRIORITY == <<"mega_shield", "large_medkit", "medkit", "bandage", "small_heal">>

----------------------------------------------------------------------------
\* RegionMemory (src/bot.py:210-254).  _rvs is a Python dict: a sequence of
\* [region, score] entries in insertion order, one per key.

Regions == {"north", "south"}

Events == {"high_tier_weapon", "kill", "zone_prone", "ambush", "rain"}

Known(m) == {m[i].region : i \in 1..Len(m)}

\* RegionMemory.rvs: self._rvs.get(region, RVS_BASE)
rvs(m, region) ==
    IF region \in Known(m)
    THEN (CHOOSE e \in {m[i] : i \in 1..Len(m)} : e.region = region).score
    ELSE RVS_BASE

\* the clamp of _adjust: max(0.0, min(2.0, old + delta))
Clamp(x) == Max(0, Min(20, x))

\* self._rvs[region] = v: an existing key keeps its place, a new one is
\* appended.
DictSet(m, region, v) ==
    IF region \in Known(m)
    THEN [i \in 1..Len(m) |->
            IF m[i].region = region THEN [region |-> region, score |-> v] ELSE m[i]]
    ELSE Append(m, [region |-> region, score |-> v])

\* _adjust with the clamp left out
_adjust_unclamped(m, region, delta) == DictSet(m, region, rvs(m, region) + delta)

\* RegionMemory._adjust
_adjust(m, region, delta) == DictSet(m, region, Clamp(rvs(m, region) + delta))

\* a delta_map that holds a penalty for every kind it does not name
delta_map_penalise_other(event) ==
    CASE event = "high_tier_weapon" -> RVS_HIGH_WEAPON
      [] event = "kill"             -> RVS_KILL
      [] event = "zone_prone"       -> RVS_ZONE_PRONE
      [] event = "ambush"           -> RVS_AMBUSH
      [] OTHER                      -> -1

\* the delta_map of record_event; 0 for a kind it does not hold
delta_map(event) ==
    CASE event = "high_tier_weapon" -> RVS_HIGH_WEAPON
      [] event = "kill"             -> RVS_KILL
      [] event = "zone_prone"       -> RVS_ZONE_PRONE
      [] event = "ambush"           -> RVS_AMBUSH
      [] OTHER                      -> 0

\* RegionMemory.is_worthwhile
is_worthwhile(m, region) == rvs(m, region) >= RVS_FLOOR

\* max(pool, key=self.rvs): the first element of the greatest score
RECURSIVE MaxByRvs(_, _, _, _)
MaxByRvs(m, pool, i, acc) ==
    IF i > Len(pool) THEN acc
    ELSE MaxByRvs(m, pool, i + 1,
                  IF rvs(m, pool[i]) > rvs(m, acc) THEN pool[i] ELSE acc)

\* best_region without the fallback to the unfiltered candidates
best_region_no_fallback(m, cands) ==
    LET worth == SelectSeq(cands, LAMBDA r : is_worthwhile(m, r))
    IN  IF worth # <<>> THEN <<MaxByRvs(m, worth, 2, worth[1])>> ELSE <<>>

\* RegionMemory.best_region
best_region(m, cands) ==
    LET worth == SelectSeq(cands, LAMBDA r : is_worthwhile(m, r))
        pool  == IF worth # <<>> THEN worth ELSE cands
    IN  IF pool # <<>> THEN <<MaxByRvs(m, pool, 2, pool[1])>> ELSE <<>>

----------------------------------------------------------------------------
\* Data model (src/bot.py:116-203).  A weapon is [name, dps, accuracy, range,
\* tier] with accuracy in percent; an enemy is [id, hp, max_hp, dps, distance,
\* in_zone]; a loot entry is [id, item]; inventory is a function from item
\* names to counts.

\* Weapon.score, dps * accuracy * range * mult
score(w) == Rat(w.dps * w.accuracy * w.range * TIER_MULT(w.tier), 1000)

\* is_upgrade_over with a strict comparison against WEAPON_UPGRADE_PCT
is_upgrade_over_strict(w, other) ==
    IF other = <<>> THEN TRUE
    ELSE LET o == score(other[1])
         IN  IF RLe(o, RInt(0)) THEN RLt(RInt(0), score(w))
             ELSE RLt(Rat(WEAPON_UPGRADE_PCT, 100), RDiv(RSub(score(w), o), o))

\* Weapon.is_upgrade_over
is_upgrade_over(w, other) ==
    IF other = <<>> THEN TRUE
    ELSE LET o == score(other[1])
         IN  IF RLe(o, RInt(0)) THEN RLt(RInt(0), score(w))
             ELSE RLe(Rat(WEAPON_UPGRADE_PCT, 100), RDiv(RSub(score(w), o), o))

\* Enemy.hp_pct and GameState.hp_pct
hp_pct(x) == IF x.max_hp # 0 THEN Rat(x.hp * 100, x.max_hp) ELSE RInt(0)

\* dict.get(key, 0)
Get(d, key) == IF key \in DOMAIN d THEN d[key] ELSE 0

RECURSIVE FirstHeal(_, _)
FirstHeal(inv, i) ==
    IF i > Len(HEAL_PRIORITY) THEN <<>>
    ELSE IF Get(inv, HEAL_PRIORITY[i]) > 0 THEN <<HEAL_PRIORITY[i]>>
    ELSE FirstHeal(inv, i + 1)

\* best_heal walking HEAL_PRIORITY from the weakest item
best_heal_weakest_first(g) ==
    LET have == SelectSeq(HEAL_PRIORITY, LAMBDA item : Get(g.inventory, item) > 0)
    IN  IF have = <<>> THEN <<>> ELSE <<have[Len(have)]>>

\* GameState.best_heal
best_heal(g) == FirstHeal(g.inventory, 1)

----------------------------------------------------------------------------
\* DecisionEngine (src/bot.py:261-490)

\* _zone_critical without the is_safe test
_zone_critical_no_unsafe(g) ==
    \/ g.zone.distance < 50 /\ g.zone.shrink_timer < 10
    \/ RLt(hp_pct(g), RInt(HP_ZONE_ABORT)) /\ g.zone.distance < 80

\* DecisionEngine._zone_critical
_zone_critical(g) ==
    IF ~g.zone.is_safe THEN TRUE
    ELSE IF g.zone.distance < 50 /\ g.zone.shrink_timer < 10 THEN TRUE
    ELSE IF RLt(hp_pct(g), RInt(HP_ZONE_ABORT)) /\ g.zone.distance < 80 THEN TRUE
    ELSE FALSE

\* DecisionEngine._zone_escape_action; use_heal is <<>> when the key is absent
_zone_escape_action(g) ==
    [action    |-> "escape_zone",
     direction |-> IF g.zone.direction # "" THEN g.zone.direction ELSE "safe_zone_center",
     priority  |-> "sprint",
     use_heal  |-> IF RLt(hp_pct(g), RInt(30)) /\ best_heal(g) # <<>>
                   THEN best_heal(g) ELSE <<>>]

\* max(gs.weapons_nearby, key=score): the first weapon of the greatest score
RECURSIVE MaxByScore(_, _, _)
MaxByScore(ws, i, acc) ==
    IF i > Len(ws) THEN acc
    ELSE MaxByScore(ws, i + 1, IF RLt(score(acc), score(ws[i])) THEN ws[i] ELSE acc)

\* DecisionEngine._best_nearby_weapon
_best_nearby_weapon(g) ==
    IF g.weapons_nearby = <<>> THEN <<>>
    ELSE <<MaxByScore(g.weapons_nearby, 2, g.weapons_nearby[1])>>

\* DecisionEngine._safe_path_prob, in percent
_safe_path_prob(g) ==
    LET d == g.zone.distance
    IN  IF d > 200 THEN 90 ELSE IF d > 100 THEN 75 ELSE IF d > 50 THEN 55 ELSE 30

\* DecisionEngine._weapon_in_zone_trajectory
_weapon_in_zone_trajectory(g) == g.zone.distance < 40 /\ g.zone.shrink_timer < 8

\* DecisionEngine._position_advantage
_position_advantage(g, e) == RInt(1)

\* gs.weapon.dps if gs.weapon else 5.0
my_dps(g) == IF g.weapon # <<>> THEN g.weapon[1].dps ELSE 5

\* _win_prob with the raw ratio clamped instead of raw / (raw + 1)
_win_prob_no_sigmoid(g, e) ==
    LET raw == RDiv(RInt(my_dps(g) * g.hp * g.vision_modifier * 50),
                    RMul(RMul(RMax(RInt(e.dps), Rat(1, 10)), RMax(RInt(e.hp), Rat(1, 10))),
                         RInt(10 * Max(50, e.distance))))
    IN  RMin(RInt(1), RMax(RInt(0), raw))

\* DecisionEngine._win_prob; vision_modifier is in tenths
_win_prob(g, e) ==
    LET vis     == Rat(g.vision_modifier, 10)
        vis_adv == IF g.vision_modifier < 5 /\ e.distance > 60
                   THEN RMul(vis, Rat(6, 10)) ELSE vis
        e_dps   == RMax(RInt(e.dps), Rat(1, 10))
        e_hp    == RMax(RInt(e.hp), Rat(1, 10))
        dist_r  == RMax(RInt(1), Rat(e.distance, 50))
        numerator   == RMul(RMul(RInt(my_dps(g) * g.hp), _position_advantage(g, e)), vis_adv)
        denominator == RMul(RMul(e_dps, e_hp), dist_r)
        raw == RDiv(numerator, denominator)
    IN  RMin(RInt(1), RMax(RInt(0), RDiv(raw, RAdd(raw, RInt(1)))))

\* DecisionEngine._enemy_escape_prob, in percent
_enemy_escape_prob(e) ==
    IF RLt(hp_pct(e), RInt(25)) THEN 10
    ELSE IF e.distance > 100 THEN 70
    ELSE 35

\* the composite score of _select_target
target_score(g, e) ==
    RDiv(RMul(_win_prob(g, e), RSub(RInt(1), RDiv(hp_pct(e), RInt(100)))),
         RInt(Max(e.distance, 1)))

\* the loop of _select_target from enemy i on, [best, best_score] so far
RECURSIVE select_loop(_, _, _)
select_loop(g, i, acc) ==
    IF i > Len(g.enemies) THEN acc
    ELSE LET e == g.enemies[i]
         IN  IF e.in_zone THEN select_loop(g, i + 1, acc)
             ELSE IF /\ RLe(Rat(WIN_PROB_ENGAGE, 100), _win_prob(g, e))
                     /\ _enemy_escape_prob(e) <= ESCAPE_PROB_MAX
                     /\ RLt(acc.best_score, target_score(g, e))
                  THEN select_loop(g, i + 1,
                                   [best |-> <<e>>, best_score |-> target_score(g, e)])
                  ELSE select_loop(g, i + 1, acc)

\* the loop of _select_target without the skip of enemies inside the zone
RECURSIVE select_loop_all(_, _, _)
select_loop_all(g, i, acc) ==
    IF i > Len(g.enemies) THEN acc
    ELSE LET e == g.enemies[i]
         IN  IF /\ RLe(Rat(WIN_PROB_ENGAGE, 100), _win_prob(g, e))
                /\ _enemy_escape_prob(e) <= ESCAPE_PROB_MAX
                /\ RLt(acc.best_score, target_score(g, e))
             THEN select_loop_all(g, i + 1,
                                  [best |-> <<e>>, best_score |-> target_score(g, e)])
             ELSE select_loop_all(g, i + 1, acc)

\* _select_target considering the enemies inside the zone too
_select_target_zone_too(g) ==
    select_loop_all(g, 1, [best |-> <<>>, best_score |-> RInt(0)]).best

\* DecisionEngine._select_target
_select_target(g) == select_loop(g, 1, [best |-> <<>>, best_score |-> RInt(0)]).best

\* DecisionEngine._kill_time
_kill_time(g, e) == IF my_dps(g) > 0 THEN Rat(e.hp, my_dps(g)) ELSE RInt(999)

\* DecisionEngine._self_escape_prob, in percent
_self_escape_prob(g) ==
    LET d == g.zone.distance
    IN  IF d < 20 THEN 30 ELSE IF d < 60 THEN 60 ELSE 85

\* DecisionEngine._heal_action
_heal_action(g) == [action |-> "use_item", item |-> best_heal(g)[1]]

DefaultRegions == <<"central", "north", "south", "east", "west">>

\* list(self.memory._rvs.keys())
Keys(m) == [i \in 1..Len(m) |-> m[i].region]

\* _choose_region asking for the best of the default regions whatever is known
_choose_region_defaults_only(g, m) == best_region(m, DefaultRegions)

\* DecisionEngine._choose_region
_choose_region(g, m) ==
    LET known == IF Keys(m) # <<>> THEN Keys(m) ELSE DefaultRegions
    IN  best_region(m, known)

\* the first loot entry from i on that is below the cap (a heal, if heal_only)
RECURSIVE FirstLoot(_, _, _)
FirstLoot(g, i, heal_only) ==
    IF i > Len(g.loot_nearby) THEN <<>>
    ELSE LET name == g.loot_nearby[i].item
         IN  IF /\ heal_only => \E k \in 1..Len(HEAL_PRIORITY) : HEAL_PRIORITY[k] = name
                /\ Get(g.inventory, name) < MAX_HEAL_PER_TYPE
             THEN <<g.loot_nearby[i]>>
             ELSE FirstLoot(g, i + 1, heal_only)

\* _pick_loot without the preference for heal items at low hp
_pick_loot_first_uncapped(g) ==
    IF g.loot_nearby = <<>> THEN <<>> ELSE FirstLoot(g, 1, FALSE)

\* DecisionEngine._pick_loot
_pick_loot(g) ==
    IF g.loot_nearby = <<>> THEN <<>>
    ELSE IF RLt(hp_pct(g), RInt(HP_USE_HEAL)) /\ FirstLoot(g, 1, TRUE) # <<>>
         THEN FirstLoot(g, 1, TRUE)
         ELSE FirstLoot(g, 1, FALSE)

\* steps 6 to 8 without the test that the region differs from the current one
decide_explore_always_moves(g, m) ==
    [ret |-> [action |-> "move_to_region", region |-> _choose_region(g, m)[1]], gs |-> g]

\* steps 6 to 8 of decide
decide_explore(g, m) ==
    LET region == _choose_region(g, m)
        loot   == _pick_loot(g)
    IN  IF region # <<>> /\ region[1] # g.current_region
        THEN [ret |-> [action |-> "move_to_region", region |-> region[1]], gs |-> g]
        ELSE IF loot # <<>>
        THEN [ret |-> [action |-> "pick_loot", item_id |-> loot[1].id], gs |-> g]
        ELSE [ret |-> [action |-> "patrol"], gs |-> g]

\* step 5 of decide writing target_id but not locked_target
decide_combat_id_only(g, m) ==
    LET target == _select_target(g)
    IN  IF target = <<>> THEN decide_explore(g, m)
        ELSE [ret |-> [action |-> "attack", target_id |-> target[1].id],
              gs  |-> [g EXCEPT !.target_id = <<target[1].id>>]]

\* step 5 of decide, and the steps after it when it returns nothing
decide_combat(g, m) ==
    LET target == _select_target(g)
        locked == [g EXCEPT !.locked_target = target, !.target_id = <<target[1].id>>]
        attack == [action |-> "attack", target_id |-> target[1].id]
    IN  IF target = <<>> THEN decide_explore(g, m)
        ELSE IF target[1].in_zone
        THEN IF /\ RLe(_kill_time(locked, target[1]), RInt(ZONE_CHASE_MAX_SEC))
                /\ _self_escape_prob(locked) >= ZONE_ESCAPE_MIN
             THEN [ret |-> attack, gs |-> locked]
             ELSE decide_explore([locked EXCEPT !.locked_target = <<>>, !.target_id = <<>>], m)
        ELSE [ret |-> attack, gs |-> locked]

\* decide with the critical heal tested before the zone
decide_heal_first(g, m) ==
    LET best_w == _best_nearby_weapon(g)
    IN  IF RLt(hp_pct(g), RInt(HP_DISENGAGE)) /\ best_heal(g) # <<>>
        THEN [ret |-> _heal_action(g), gs |-> g]
        ELSE IF _zone_critical(g)
        THEN [ret |-> _zone_escape_action(g), gs |-> g]
        ELSE IF /\ best_w # <<>>
                /\ is_upgrade_over(best_w[1], g.weapon)
                /\ _safe_path_prob(g) >= SAFE_PATH_MIN
                /\ ~_weapon_in_zone_trajectory(g)
        THEN [ret |-> [action |-> "move_to_weapon", weapon_name |-> best_w[1].name], gs |-> g]
        ELSE IF RLt(hp_pct(g), RInt(HP_USE_HEAL)) /\ best_heal(g) # <<>>
        THEN [ret |-> _heal_action(g), gs |-> g]
        ELSE decide_combat(g, m)

\* DecisionEngine.decide: [ret |-> the dict returned, gs |-> the snapshot after]
decide(g, m) ==
    LET best_w == _best_nearby_weapon(g)
    IN  IF _zone_critical(g)
        THEN [ret |-> _zone_escape_action(g), gs |-> g]
        ELSE IF RLt(hp_pct(g), RInt(HP_DISENGAGE)) /\ best_heal(g) # <<>>
        THEN [ret |-> _heal_action(g), gs |-> g]
        ELSE IF /\ best_w # <<>>
                /\ is_upgrade_over(best_w[1], g.weapon)
                /\ _safe_path_prob(g) >= SAFE_PATH_MIN
                /\ ~_weapon_in_zone_trajectory(g)
        THEN [ret |-> [action |-> "move_to_weapon", weapon_name |-> best_w[1].name], gs |-> g]
        ELSE IF RLt(hp_pct(g), RInt(HP_USE_HEAL)) /\ best_heal(g) # <<>>
        THEN [ret |-> _heal_action(g), gs |-> g]
        ELSE decide_combat(g, m)

----------------------------------------------------------------------------
\* The initial values of the variables a specification does not use.

NoAction == [action |-> "none"]

GameState0 ==
    [hp |-> 100, max_hp |-> 100, weapon |-> <<>>,
     inventory |-> [i \in {} |-> 0],
     zone |-> [distance |-> 999, shrink_timer |-> 999, direction |-> "", is_safe |-> TRUE],
     vision_modifier |-> 10,
     enemies |-> <<>>, loot_nearby |-> <<>>, weapons_nearby |-> <<>>,
     current_region |-> "",
     balance |-> 0, kills |-> 0, players_alive |-> 0, tick |-> 0,
     target_id |-> <<>>, locked_target |-> <<>>]

\* no call made yet
NoCall == [op |-> "none"]

\* MoltyBot.__init__: no session, no room, no match, and start not yet run
BotConstructed ==
    /\ pc = "start"
    /\ session = "none"
    /\ room_id = <<>>
    /\ match_id = <<>>
    /\ err_streak = 0
    /\ stat_matches = 0
    /\ rid = <<>>
    /\ signal = FALSE
    /\ inflight = {}
    /\ decides = 0
    /\ sends = 0

Enemy0 == [id |-> "", hp |-> 100, max_hp |-> 100, dps |-> 10, distance |-> 50, in_zone |-> FALSE]

----------------------------------------------------------------------------
\* RegionMemory as a state machine: any sequence of record_explore and
\* record_event calls on an empty memory.

MaxExplores == 3
MaxLoot == 1

InitMemory ==
    /\ _rvs = <<>>
    /\ _explores = [r \in Regions |-> 0]
    /\ _loot_found = [r \in Regions |-> 0]
    /\ gs = GameState0
    /\ action = NoAction
    /\ candidates = <<>>
    /\ best = <<>>
    /\ enemy = Enemy0
    /\ wp = <<>>
    /\ call = NoCall
    /\ BotConstructed

\* RegionMemory.record_explore
record_explore(region, loot) ==
    /\ _explores[region] < MaxExplores
    /\ _loot_found[region] + loot <= MaxLoot
    /\ _explores' = [_explores EXCEPT ![region] = @ + 1]
    /\ _loot_found' = [_loot_found EXCEPT ![region] = @ + loot]
    /\ _rvs' = IF _explores'[region] >= 2 /\ _loot_found'[region] = 0
               THEN _adjust(_rvs, region, RVS_FAIL_EXPLORE)
               ELSE _rvs
    /\ UNCHANGED <<gs, action, candidates, best, enemy, wp, call, loop_vars>>

\* RegionMemory.record_event; what it leaves of the record of the last call is
\* the caller's
record_event(region, event) ==
    /\ _rvs' = IF delta_map(event) # 0
               THEN _adjust(_rvs, region, delta_map(event))
               ELSE _rvs
    /\ UNCHANGED <<_explores, _loot_found, gs, action, candidates, best, enemy, wp, loop_vars>>

NextMemory ==
    \/ \E r \in Regions, n \in 0..MaxLoot : record_explore(r, n)
    \/ \E r \in Regions, e \in Events : record_event(r, e) /\ UNCHANGED call

SpecMemory == InitMemory /\ [][NextMemory]_vars

----------------------------------------------------------------------------
\* record_event as a single call: one record_event call on a memory that a
\* sequence of RegionMemory calls can have built.

\* scores in tenths a sequence of adjustments from 1.0 reaches
EventScores == {0, 1, 3, 5, 10, 18, 19, 20}

\* (explores, loot found) of one region: never explored, explored without
\* loot, explored with loot
EventCounters == {<<0, 0>>, <<1, 0>>, <<1, 1>>}

EventRvs ==
    {<<>>}
    \cup {<<[region |-> r, score |-> x]>> : r \in Regions, x \in EventScores}
    \cup {<<[region |-> r1, score |-> x], [region |-> r2, score |-> y]>> :
            r1 \in Regions, r2 \in Regions, x \in EventScores, y \in EventScores}

InitEvent ==
    /\ _rvs \in {m \in EventRvs : Len(m) = Cardinality(Known(m))}
    /\ \E c \in [Regions -> EventCounters] :
          /\ _explores = [r \in Regions |-> c[r][1]]
          /\ _loot_found = [r \in Regions |-> c[r][2]]
    /\ gs = GameState0
    /\ action = NoAction
    /\ candidates = <<>>
    /\ best = <<>>
    /\ enemy = Enemy0
    /\ wp = <<>>
    /\ call = NoCall
    /\ BotConstructed

\* one call memory.record_event(region, event)
record_event_call(region, event) ==
    /\ call = NoCall
    /\ BotConstructed
    /\ record_event(region, event)
    /\ call' = [op |-> "record_event", region |-> region, event |-> event]

NextEvent == \E r \in Regions, e \in Events : record_event_call(r, e)

SpecEvent == InitEvent /\ [][NextEvent]_vars

----------------------------------------------------------------------------
\* best_region as a pure function: a memory and a candidate list are drawn,
\* and the call is applied.

MaxCand == 3

SeqsUpTo(S, n) == UNION {[1..k -> S] : k \in 0..n}

CandRegions == {"north", "south", "east"}

\* scores below the floor, at the floor and above the base value
ScoreSamples == {3, 4, 5, 15}

\* the memories holding each of the regions at most once, in any order
MemorySamples ==
    {m \in SeqsUpTo([region : CandRegions, score : ScoreSamples], Cardinality(CandRegions)) :
        \A i, j \in 1..Len(m) : i # j => m[i].region # m[j].region}

InitBest ==
    /\ _rvs \in MemorySamples
    /\ _explores = [r \in Regions |-> 0]
    /\ _loot_found = [r \in Regions |-> 0]
    /\ gs = GameState0
    /\ action = NoAction
    /\ candidates = <<>>
    /\ best = <<>>
    /\ enemy = Enemy0
    /\ wp = <<>>
    /\ call = NoCall
    /\ BotConstructed

best_region_call(cands) ==
    /\ candidates = <<>>
    /\ candidates' = cands
    /\ best' = best_region(_rvs, cands)
    /\ UNCHANGED <<_rvs, _explores, _loot_found, gs, action, enemy, wp, call, loop_vars>>

NextBest == \E c \in SeqsUpTo(CandRegions, MaxCand) : best_region_call(c)

SpecBest == InitBest /\ [][NextBest]_vars

----------------------------------------------------------------------------
\* _win_prob as a pure function: an agent and an enemy are drawn, and the
\* call is applied.

MaxDps == 30

Pistol == [name |-> "pistol", dps |-> 20, accuracy |-> 100, range |-> 1, tier |-> "common"]

InitWinProb ==
    /\ _rvs = <<>>
    /\ _explores = [r \in Regions |-> 0]
    /\ _loot_found = [r \in Regions |-> 0]
    /\ \E w \in {<<>>, <<Pistol>>}, h \in {50, 100}, v \in {4, 10} :
          gs = [GameState0 EXCEPT !.weapon = w, !.hp = h, !.vision_modifier = v]
    /\ action = NoAction
    /\ candidates = <<>>
    /\ best = <<>>
    /\ enemy \in [id : {"e1"}, hp : {40, 100}, max_hp : {100}, dps : 0..MaxDps,
                  distance : {30, 80}, in_zone : {FALSE}]
    /\ wp = <<>>
    /\ call = NoCall
    /\ BotConstructed

win_prob_call ==
    /\ wp = <<>>
    /\ wp' = _win_prob(gs, enemy)
    /\ UNCHANGED <<_rvs, _explores, _loot_found, gs, action, candidates, best, enemy, call, loop_vars>>

NextWinProb == win_prob_call

SpecWinProb == InitWinProb /\ [][NextWinProb]_vars

----------------------------------------------------------------------------
\* decide as a function of the snapshot and the memory: both are drawn, and
\* decide is applied once.  The snapshots come in three families, each
\* varying the fields its steps of the policy read.

MaxWeapons == 2
MaxEnemies == 2
MaxNearby == 2

Weapon(name, dps, accuracy, range, tier) ==
    [name |-> name, dps |-> dps, accuracy |-> accuracy, range |-> range, tier |-> tier]

\* held weapons: none, score 20, score 24, score 0
HeldWeapons ==
    {<<>>, <<Pistol>>, <<Weapon("cannon", 8, 100, 2, "rare")>>, <<Weapon("dud", 0, 100, 1, "common")>>}

\* nearby weapons: two of score 26 (30% above the pistol), one of score 23
\* (exactly 15% above it)
NearbyWeapons ==
    {Weapon("rifle", 13, 100, 2, "common"), Weapon("carbine", 26, 100, 1, "common"),
     Weapon("smg", 23, 50, 2, "common")}

Enemy(id, hp, max_hp, dps, distance, in_zone) ==
    [id |-> id, hp |-> hp, max_hp |-> max_hp, dps |-> dps, distance |-> distance,
     in_zone |-> in_zone]

EnemySamples ==
    {Enemy("e1", 20, 100, 10, 30, FALSE),    \* weak and near
     Enemy("e2", 20, 100, 10, 30, FALSE),    \* its twin
     Enemy("e3", 100, 100, 10, 30, FALSE),   \* at full health
     Enemy("e4", 40, 100, 10, 80, FALSE),    \* farther
     Enemy("e5", 10, 100, 10, 30, TRUE),     \* inside the danger zone
     Enemy("e6", 40, 100, 10, 120, FALSE)}   \* too far to commit

Inventories ==
    {[i \in {} |-> 0],
     [i \in {"medkit"} |-> 1],
     [i \in {"mega_shield", "bandage"} |-> IF i = "bandage" THEN 2 ELSE 0],
     [i \in {"small_heal", "medkit", "ammo"} |-> IF i = "ammo" THEN 3 ELSE 1]}

LootSamples == {[id |-> "l1", item |-> "ammo"], [id |-> "l2", item |-> "medkit"],
                [id |-> "l3", item |-> "bandage"]}

\* hp and max_hp: 20%, 32%, 50%, 80%, and max_hp = 0
Vitals == {<<20, 100>>, <<32, 100>>, <<50, 100>>, <<80, 100>>, <<50, 0>>}

Zones(distances, timers, safes, directions) ==
    [distance : distances, shrink_timer : timers, is_safe : safes, direction : directions]

\* steps 1 to 4: vitals, zone, held and nearby weapons, inventory
SurvivalSnapshots ==
    {[GameState0 EXCEPT !.hp = v[1], !.max_hp = v[2], !.zone = z, !.weapon = w,
                        !.weapons_nearby = ws, !.inventory = inv,
                        !.current_region = "central"] :
        v \in Vitals,
        z \in Zones({30, 45, 70, 90, 150, 250}, {5, 9, 20}, BOOLEAN, {"north"}),
        w \in HeldWeapons,
        ws \in SeqsUpTo(NearbyWeapons, MaxWeapons),
        inv \in Inventories}

\* step 5: the agent's firepower and vision, the enemies, a lock left by an
\* earlier tick
CombatSnapshots ==
    {[GameState0 EXCEPT !.hp = v[1], !.max_hp = v[2], !.zone = z, !.weapon = w,
                        !.vision_modifier = vis, !.enemies = es,
                        !.target_id = IF lock = <<>> THEN <<>> ELSE <<lock[1].id>>,
                        !.locked_target = lock,
                        !.current_region = "central"] :
        v \in {<<50, 100>>, <<80, 100>>},
        z \in Zones({90, 250}, {5}, {TRUE}, {""}) \cup Zones({250}, {20}, {FALSE}, {"", "north"}),
        w \in {<<>>, <<Pistol>>, <<Weapon("dud", 0, 100, 1, "common")>>},
        vis \in {4, 10},
        es \in SeqsUpTo(EnemySamples, MaxEnemies),
        lock \in {<<>>, <<Enemy("e1", 20, 100, 10, 30, FALSE)>>}}

\* steps 6 to 8: the current region, the loot nearby, the inventory
ExploreSnapshots ==
    {[GameState0 EXCEPT !.hp = v[1], !.max_hp = v[2], !.inventory = inv,
                        !.zone.is_safe = safe,
                        !.loot_nearby = ls, !.current_region = r] :
        v \in {<<50, 100>>, <<80, 100>>},
        safe \in BOOLEAN,
        inv \in Inventories,
        ls \in SeqsUpTo(LootSamples, MaxNearby),
        r \in {"central", "north", "south"}}

\* memories for decide: empty, or north and south known in either order
DecideMemories ==
    {<<>>,
     <<[region |-> "north", score |-> 15], [region |-> "south", score |-> 4]>>,
     <<[region |-> "south", score |-> 4], [region |-> "north", score |-> 4]>>}

InitDecide ==
    /\ \/ gs \in SurvivalSnapshots /\ _rvs = <<>>
       \/ gs \in CombatSnapshots /\ _rvs = <<>>
       \/ gs \in ExploreSnapshots /\ _rvs \in DecideMemories
    /\ _explores = [r \in Regions |-> 0]
    /\ _loot_found = [r \in Regions |-> 0]
    /\ action = NoAction
    /\ candidates = <<>>
    /\ best = <<>>
    /\ enemy = Enemy0
    /\ wp = <<>>
    /\ call = NoCall
    /\ BotConstructed

\* self.engine.decide(self.gs)
Decide ==
    /\ action = NoAction
    /\ action' = decide(gs, _rvs).ret
    /\ gs' = decide(gs, _rvs).gs
    /\ UNCHANGED <<_rvs, _explores, _loot_found, candidates, best, enemy, wp, call, loop_vars>>

NextDecide == Decide

SpecDecide == InitDecide /\ [][NextDecide]_vars

----------------------------------------------------------------------------
\* RoomSelector.select as a single call on a list of room descriptors as
\* MoltyClient.list_rooms returns them: dicts holding id, current_players,
\* max_players, type and entry_cost.

MaxRooms == 3

\* str(type).lower() on the type strings of the samples
Lower(t) == IF t \in {"PAID", "Paid"} THEN "paid" ELSE IF t = "FREE" THEN "free" ELSE t

Room(id, current, max_p, rtype, cost) ==
    [id |-> id, current_players |-> current, max_players |-> max_p,
     type |-> rtype, entry_cost |-> cost]

RoomSamples ==
    {Room("a", 2, 4, "free", 0),  Room("b", 3, 4, "free", 0),
     Room("b2", 3, 6, "free", 0), Room("c", 4, 4, "free", 0),
     Room("d", 3, 8, "paid", 5),  Room("e", 5, 8, "PAID", 10),
     Room("f", 8, 8, "paid", 5),  Room("g", 6, 8, "vip", 10)}

Balances == {0, 5, 7}

\* the filter of the loop of select: not full, and affordable when paid
available_ok(room, balance) ==
    /\ ~(room.current_players >= room.max_players)
    /\ ~(Lower(room.type) = "paid" /\ balance < room.entry_cost)

\* max(available, key=current_players): the first of the greatest count
RECURSIVE MaxByPlayers(_, _, _)
MaxByPlayers(pool, i, acc) ==
    IF i > Len(pool) THEN acc
    ELSE MaxByPlayers(pool, i + 1,
                      IF pool[i].current_players > acc.current_players
                      THEN pool[i] ELSE acc)

\* select without the affordability filter
select_ignore_cost(rooms, balance) ==
    LET available == SelectSeq(rooms, LAMBDA r : ~(r.current_players >= r.max_players))
    IN  IF available = <<>> THEN <<>>
        ELSE <<MaxByPlayers(available, 2, available[1])>>

\* RoomSelector.select
select(rooms, balance) ==
    LET available == SelectSeq(rooms, LAMBDA r : available_ok(r, balance))
    IN  IF available = <<>> THEN <<>>
        ELSE <<MaxByPlayers(available, 2, available[1])>>

InitSelect ==
    /\ _rvs = <<>>
    /\ _explores = [r \in Regions |-> 0]
    /\ _loot_found = [r \in Regions |-> 0]
    /\ gs = GameState0
    /\ action = NoAction
    /\ candidates = <<>>
    /\ best = <<>>
    /\ enemy = Enemy0
    /\ wp = <<>>
    /\ call = NoCall
    /\ BotConstructed

\* one call selector.select(rooms, balance)
select_call(rooms, balance) ==
    /\ call = NoCall
    /\ BotConstructed
    /\ call' = [op |-> "select", rooms |-> rooms, balance |-> balance,
                result |-> select(rooms, balance)]
    /\ UNCHANGED <<_rvs, _explores, _loot_found, gs, action, candidates, best, enemy, wp, loop_vars>>

NextSelect == \E rooms \in SeqsUpTo(RoomSamples, MaxRooms), b \in Balances : select_call(rooms, b)

SpecSelect == InitSelect /\ [][NextSelect]_vars

----------------------------------------------------------------------------
\* The driving loop: MoltyBot.start, _run, _phase_room, _phase_match,
\* _process_result and _end_match.  start is one coroutine; a step of the
\* model runs it from one suspension point (an awaited API call or sleep) to
\* the next.  The reply of an awaited API call is None (a sequence of no
\* element) when MoltyClient._req failed, timed out or got a non-2xx answer.

MaxErr == 1
MaxMatches == 1
MaxKills == 1
MaxTicks == 2

mem_vars == <<_rvs, _explores, _loot_found>>
call_vars == <<candidates, best, enemy, wp>>

\* the RegionMemory of the bot as one value
Memory == [_rvs |-> _rvs, _explores |-> _explores, _loot_found |-> _loot_found]

\* RegionMemory.record_event on a memory value
after_record_event(m, region, event) ==
    IF delta_map(event) # 0
    THEN [m EXCEPT !._rvs = _adjust(m._rvs, region, delta_map(event))]
    ELSE m

\* RegionMemory.record_explore on a memory value
after_record_explore(m, region, loot) ==
    LET e == [m._explores EXCEPT ![region] = @ + 1]
        l == [m._loot_found EXCEPT ![region] = @ + loot]
    IN  [_rvs |-> IF e[region] >= 2 /\ l[region] = 0
                  THEN _adjust(m._rvs, region, RVS_FAIL_EXPLORE)
                  ELSE m._rvs,
         _explores |-> e, _loot_found |-> l]

\* a state reply; a key it does not hold is a sequence of no element, and
\* bad says that it holds a vital float() cannot convert
Raw(status, hp, kills, players_alive, enemies, weapon) ==
    [bad |-> FALSE, status |-> status, hp |-> hp, kills |-> kills, balance |-> <<>>,
     players_alive |-> players_alive, region |-> <<"north">>, weapon |-> weapon,
     enemies |-> enemies, loot_nearby |-> <<>>, weapons_nearby |-> <<>>]

\* the state replies a poll can get on top of the snapshot g; none holds a
\* tick, so that parse counts the ticks itself
Raws(g) ==
    {[Raw("", <<80>>, <<>>, <<5>>, <<>>, <<Pistol>>) EXCEPT !.bad = TRUE]}
    \cup (IF g.tick < MaxTicks
          THEN {Raw("", <<80>>, <<>>, <<5>>, <<>>, <<Pistol>>),      \* nothing in sight
                Raw("", <<80>>, <<>>, <<5>>,
                    <<Enemy("e1", 20, 100, 10, 30, FALSE)>>, <<Pistol>>), \* a weak enemy
                Raw("finished", <<80>>, <<>>, <<5>>, <<>>, <<Pistol>>),  \* the match is over
                Raw("", <<0>>, <<>>, <<5>>, <<>>, <<Pistol>>),        \* the agent is dead
                Raw("", <<80>>, <<>>, <<>>, <<>>, <<Pistol>>)}        \* no players_alive
          ELSE {})
    \cup (IF g.tick < MaxTicks /\ g.kills < MaxKills
          THEN {Raw("", <<80>>, <<g.kills + 1>>, <<5>>, <<>>, <<Pistol>>),
                Raw("", <<80>>, <<g.kills + 1>>, <<1>>, <<>>, <<Pistol>>)}
          ELSE {})

\* float(x) or int(x) of StateParser.parse raises on the raw
parse_raises(raw) == raw.bad

\* StateParser.parse(raw, prev)
parse(raw, prev) ==
    [prev EXCEPT
        !.hp             = IF raw.hp # <<>> THEN raw.hp[1] ELSE @,
        !.balance        = IF raw.balance # <<>> THEN raw.balance[1] ELSE @,
        !.kills          = IF raw.kills # <<>> THEN raw.kills[1] ELSE @,
        !.tick           = @ + 1,
        !.current_region = IF raw.region # <<>> THEN raw.region[1] ELSE @,
        !.weapon         = IF raw.weapon # <<>> THEN raw.weapon ELSE @,
        !.inventory      = [i \in {} |-> 0],
        !.enemies        = raw.enemies,
        !.loot_nearby    = raw.loot_nearby,
        !.weapons_nearby = raw.weapons_nearby,
        !.players_alive  = IF raw.players_alive # <<>> THEN raw.players_alive[1] ELSE @]

\* the replies to send_action: None, or a dict of weapon_acquired and
\* items_found (absent: <<>>) and ambushed
SendReplies ==
    {<<>>} \cup {<<[weapon_acquired |-> w, items_found |-> n, ambushed |-> a]>> :
                    w \in {<<>>, <<Weapon("railgun", 40, 100, 2, "epic")>>},
                    n \in {<<>>, <<0>>, <<1>>}, a \in BOOLEAN}

\* MoltyBot._process_result: the snapshot and the memory after it
_process_result(result, act, g, m) ==
    IF result = <<>> THEN [gs |-> g, mem |-> m]
    ELSE LET got    == act.action = "move_to_weapon" /\ result[1].weapon_acquired # <<>>
             g1     == IF got THEN [g EXCEPT !.weapon = result[1].weapon_acquired] ELSE g
             m0     == IF got /\ g1.weapon[1].tier \in {"legendary", "epic"}
                       THEN after_record_event(m, g.current_region, "high_tier_weapon")
                       ELSE m
             loot_n == IF result[1].items_found # <<>> THEN result[1].items_found[1] ELSE 0
             m1     == IF act.action \in {"move_to_region", "explore"}
                       THEN after_record_explore(m0, g.current_region, loot_n)
                       ELSE m0
             m2     == IF result[1].ambushed
                       THEN after_record_event(m1, g.current_region, "ambush")
                       ELSE m1
         IN  [gs |-> g1, mem |-> m2]

\* the counters of the memory stay within the bounds
WithinBounds(m) ==
    \A r \in Regions : m._explores[r] <= MaxExplores /\ m._loot_found[r] <= MaxLoot

\* not x, for an Optional[str] x
Falsy(x) == x = <<>> \/ x = <<"">>

\* the replies to GET /account/balance: None, a dict without the key, a dict
\* with a balance, a dict whose balance float() cannot convert
BalanceReplies ==
    {<<>>} \cup {<<[bad |-> FALSE, balance |-> b]>> : b \in {<<>>, <<5>>}}
           \cup {<<[bad |-> TRUE, balance |-> <<>>]>>}

\* MoltyClient.get_balance: float(data.get("balance", 0)) if data else 0.0
get_balance(data) ==
    IF data = <<>> THEN 0
    ELSE IF data[1].balance = <<>> THEN 0 ELSE data[1].balance[1]

\* the room lists list_rooms can return; it returns [] when every request
\* failed, and _normalize_room gives the id "" to an item that holds no id
RoomLists ==
    {<<>>, <<Room("c", 4, 4, "free", 0)>>,
     <<Room("c", 4, 4, "free", 0), Room("d", 3, 8, "paid", 5)>>,
     <<Room("", 3, 8, "free", 0)>>}

\* the replies to join_room: None, a dict without a match id, a dict with one
JoinReplies == {<<>>, <<[match_id |-> <<>>]>>, <<[match_id |-> <<"m1">>]>>}

\* the suspension points of _run and of what it calls
LoopPoints ==
    {"get_balance", "list_rooms", "join_room", "room_sleep", "run_sleep", "get_state",
     "send_action", "tick_sleep", "leave_room", "end_sleep", "backoff"}

InitLoop ==
    /\ _rvs = <<>>
    /\ _explores = [r \in Regions |-> 0]
    /\ _loot_found = [r \in Regions |-> 0]
    /\ gs = GameState0
    /\ action = NoAction
    /\ candidates = <<>>
    /\ best = <<>>
    /\ enemy = Enemy0
    /\ wp = <<>>
    /\ call = NoCall
    /\ BotConstructed

\* MoltyBot.start up to the first await of _run: the session is opened and the
\* balance asked for
start ==
    /\ pc = "start"
    /\ session' = "open"
    /\ pc' = "get_balance"
    /\ inflight' = inflight \cup {"get_balance"}
    /\ UNCHANGED <<mem_vars, gs, action, call_vars, call, room_id, match_id, err_streak,
                   stat_matches, rid, signal, decides, sends>>

\* a shutdown signal cancels the task while it is suspended in the loop
shutdown ==
    /\ pc \in LoopPoints
    /\ ~signal
    /\ signal' = TRUE
    /\ UNCHANGED <<mem_vars, gs, action, call_vars, call, pc, session, room_id, match_id,
                   err_streak, stat_matches, rid, inflight, decides, sends>>

\* the except Exception handler of _run up to its sleep
handle_error ==
    /\ err_streak < MaxErr
    /\ err_streak' = err_streak + 1
    /\ pc' = "backoff"
    /\ inflight' = inflight \ {pc}

\* the top of the while loop of _run: get_balance is awaited
loop_top ==
    /\ pc' = "get_balance"
    /\ inflight' = inflight \cup {"get_balance"}

\* CancelledError handled as the except Exception handler of _run handles an
\* error
cancelled_swallowed ==
    /\ pc \in LoopPoints
    /\ signal
    /\ pc # "backoff"
    /\ handle_error
    /\ call' = NoCall
    /\ UNCHANGED <<mem_vars, gs, action, call_vars, session, room_id, match_id,
                   stat_matches, rid, signal, decides, sends>>

\* the await the task was cancelled in raises CancelledError: _run re-raises
\* it, start catches it and awaits session.close() in its finally
cancelled ==
    /\ pc \in LoopPoints
    /\ signal
    /\ pc' = "close"
    /\ inflight' = inflight \ {pc}
    /\ call' = NoCall
    /\ UNCHANGED <<mem_vars, gs, action, call_vars, session, room_id, match_id,
                   err_streak, stat_matches, rid, signal, decides, sends>>

\* an exception raised in the handler of _run, outside its try, leaves _run:
\* start catches it and awaits session.close() in its finally
fatal ==
    /\ pc = "backoff"
    /\ ~signal
    /\ pc' = "close"
    /\ call' = NoCall
    /\ UNCHANGED <<mem_vars, gs, action, call_vars, session, room_id, match_id,
                   err_streak, stat_matches, rid, signal, inflight, decides, sends>>

\* session.close() returns, _print_summary runs and start returns
session_close ==
    /\ pc = "close"
    /\ session' = "closed"
    /\ pc' = "done"
    /\ UNCHANGED <<mem_vars, gs, action, call_vars, call, room_id, match_id, err_streak,
                   stat_matches, rid, signal, inflight, decides, sends>>

\* get_balance returns to _run, which goes on to the first await of
\* _phase_room or of _phase_match
get_balance_returns(data) ==
    /\ pc = "get_balance"
    /\ ~signal
    /\ call' = [op |-> "get_balance", ok |-> data # <<>>]
    /\ IF data # <<>> /\ data[1].bad
       THEN /\ handle_error
            /\ UNCHANGED <<gs, decides, sends>>
       ELSE /\ gs' = [gs EXCEPT !.balance = get_balance(data)]
            /\ UNCHANGED err_streak
            /\ IF Falsy(room_id)
               THEN /\ pc' = "list_rooms"
                    /\ inflight' = (inflight \ {pc}) \cup {"list_rooms"}
                    /\ UNCHANGED <<decides, sends>>
               ELSE /\ pc' = "get_state"
                    /\ inflight' = (inflight \ {pc}) \cup {"get_state"}
                    /\ decides' = 0
                    /\ sends' = 0
    /\ UNCHANGED <<mem_vars, action, call_vars, session, room_id, match_id, stat_matches,
                   rid, signal>>

\* list_rooms returns to _phase_room, which selects a room and asks to join it;
\* rid = room.get("id") or room.get("room_id") is None for the id ""
list_rooms_returns(reply) ==
    /\ pc = "list_rooms"
    /\ ~signal
    /\ call' = [op |-> "list_rooms", ok |-> reply # <<>>]
    /\ LET rooms == IF reply = <<>> THEN <<>> ELSE reply[1]
           room  == IF rooms = <<>> THEN <<>> ELSE select(rooms, gs.balance)
       IN  IF room = <<>>
           THEN /\ pc' = "room_sleep"
                /\ inflight' = inflight \ {pc}
                /\ UNCHANGED rid
           ELSE /\ pc' = "join_room"
                /\ inflight' = (inflight \ {pc}) \cup {"join_room"}
                /\ rid' = IF room[1].id # "" THEN <<room[1].id>> ELSE <<>>
    /\ UNCHANGED <<mem_vars, gs, action, call_vars, session, room_id, match_id, err_streak,
                   stat_matches, signal, decides, sends>>

\* join_room returns to _phase_room, which returns to the sleep(2) of _run
join_room_returns(result) ==
    /\ pc = "join_room"
    /\ ~signal
    /\ call' = [op |-> "join_room", ok |-> result # <<>>]
    /\ IF result # <<>>
       THEN /\ stat_matches < MaxMatches
            /\ room_id' = rid
            /\ match_id' = IF result[1].match_id # <<>> THEN result[1].match_id ELSE rid
            /\ stat_matches' = stat_matches + 1
       ELSE UNCHANGED <<room_id, match_id, stat_matches>>
    /\ rid' = <<>>
    /\ pc' = "run_sleep"
    /\ inflight' = inflight \ {pc}
    /\ UNCHANGED <<mem_vars, gs, action, call_vars, session, err_streak, signal, decides,
                   sends>>

\* the sleep(5) or sleep(10) of _phase_room returns; the sleep(2) of _run is next
room_sleep_returns ==
    /\ pc = "room_sleep"
    /\ ~signal
    /\ pc' = "run_sleep"
    /\ call' = NoCall
    /\ UNCHANGED <<mem_vars, gs, action, call_vars, session, room_id, match_id, err_streak,
                   stat_matches, rid, signal, inflight, decides, sends>>

\* the last sleep of an iteration returns: err_streak = 0 and the next iteration
iteration_ends ==
    /\ pc \in {"run_sleep", "tick_sleep", "end_sleep"}
    /\ ~signal
    /\ err_streak' = 0
    /\ loop_top
    /\ call' = NoCall
    /\ UNCHANGED <<mem_vars, gs, action, call_vars, session, room_id, match_id,
                   stat_matches, rid, signal, decides, sends>>

\* the sleep of the error handler returns: the next iteration
backoff_returns ==
    /\ pc = "backoff"
    /\ ~signal
    /\ loop_top
    /\ call' = NoCall
    /\ UNCHANGED <<mem_vars, gs, action, call_vars, session, room_id, match_id, err_streak,
                   stat_matches, rid, signal, decides, sends>>

\* the rest of _phase_match after a state reply that is not None, up to its
\* next await, fired and forgotten: send_action is started and not awaited
phase_match_no_await(raw) ==
    LET g1 == parse(raw, gs)
        m1 == IF g1.kills - gs.kills > 0
              THEN after_record_event(Memory, g1.current_region, "kill")
              ELSE Memory
        d  == decide(g1, m1._rvs)
    IN  /\ _rvs' = m1._rvs
        /\ UNCHANGED <<_explores, _loot_found, room_id, match_id, err_streak>>
        /\ gs' = d.gs
        /\ action' = d.ret
        /\ decides' = decides + 1
        /\ sends' = sends + 1
        /\ pc' = "tick_sleep"
        /\ inflight' = (inflight \ {pc}) \cup {"send_action"}

\* the rest of _phase_match after a state reply that is not None, up to its
\* next await: leave_room of _end_match, or send_action
phase_match(raw) ==
    LET g1     == parse(raw, gs)
        m1     == IF g1.kills - gs.kills > 0
                  THEN after_record_event(Memory, g1.current_region, "kill")
                  ELSE Memory
        ended  == \/ raw.status \in {"finished", "ended", "game_over"}
                  \/ g1.players_alive <= 1
        killed == g1.hp <= 0 \/ raw.status = "dead"
        d      == decide(g1, m1._rvs)
    IN  /\ _rvs' = m1._rvs
        /\ UNCHANGED <<_explores, _loot_found, room_id, match_id, err_streak>>
        /\ IF ended \/ killed
           THEN /\ gs' = g1
                /\ pc' = "leave_room"
                /\ inflight' = (inflight \ {pc}) \cup {"leave_room"}
                /\ UNCHANGED <<action, decides, sends>>
           ELSE /\ gs' = d.gs
                /\ action' = d.ret
                /\ decides' = decides + 1
                /\ sends' = sends + 1
                /\ pc' = "send_action"
                /\ inflight' = (inflight \ {pc}) \cup {"send_action"}

\* get_state returns to a _phase_match that decides on the snapshot it has when
\* the reply is None
get_state_returns_stale(reply) ==
    /\ pc = "get_state"
    /\ ~signal
    /\ call' = IF reply = <<>> THEN [op |-> "get_state", ok |-> FALSE]
                ELSE [op |-> "get_state", ok |-> TRUE, raw |-> reply[1]]
    /\ IF reply = <<>>
       THEN /\ gs' = decide(gs, _rvs).gs
            /\ action' = decide(gs, _rvs).ret
            /\ decides' = decides + 1
            /\ sends' = sends + 1
            /\ pc' = "send_action"
            /\ inflight' = (inflight \ {pc}) \cup {"send_action"}
            /\ UNCHANGED <<mem_vars, room_id, match_id, err_streak>>
       ELSE IF parse_raises(reply[1])
       THEN /\ handle_error
            /\ UNCHANGED <<mem_vars, gs, action, room_id, match_id, decides, sends>>
       ELSE phase_match(reply[1])
    /\ UNCHANGED <<call_vars, session, stat_matches, rid, signal>>

\* get_state returns to _phase_match
get_state_returns(reply) ==
    /\ pc = "get_state"
    /\ ~signal
    /\ call' = IF reply = <<>> THEN [op |-> "get_state", ok |-> FALSE]
                ELSE [op |-> "get_state", ok |-> TRUE, raw |-> reply[1]]
    /\ IF reply = <<>>
       THEN /\ pc' = "tick_sleep"
            /\ inflight' = inflight \ {pc}
            /\ UNCHANGED <<mem_vars, gs, action, room_id, match_id, err_streak, decides,
                           sends>>
       ELSE IF parse_raises(reply[1])
       THEN /\ handle_error
            /\ UNCHANGED <<mem_vars, gs, action, room_id, match_id, decides, sends>>
       ELSE phase_match(reply[1])
    /\ UNCHANGED <<call_vars, session, stat_matches, rid, signal>>

\* send_action returns to _phase_match, which calls _process_result and sleeps
send_action_returns(result) ==
    /\ pc = "send_action"
    /\ ~signal
    /\ call' = [op |-> "send_action", ok |-> result # <<>>]
    /\ LET r == _process_result(result, action, gs, Memory)
       IN  /\ WithinBounds(r.mem)
           /\ gs' = r.gs
           /\ _rvs' = r.mem._rvs
           /\ _explores' = r.mem._explores
           /\ _loot_found' = r.mem._loot_found
    /\ pc' = "tick_sleep"
    /\ inflight' = inflight \ {pc}
    /\ UNCHANGED <<action, call_vars, session, room_id, match_id, err_streak,
                   stat_matches, rid, signal, decides, sends>>

\* leave_room returns to _end_match, which forgets the room, the match and the
\* snapshot and sleeps
leave_room_returns(result) ==
    /\ pc = "leave_room"
    /\ ~signal
    /\ call' = [op |-> "leave_room", ok |-> result # <<>>]
    /\ room_id' = <<>>
    /\ match_id' = <<>>
    /\ gs' = GameState0
    /\ pc' = "end_sleep"
    /\ inflight' = inflight \ {pc}
    /\ UNCHANGED <<mem_vars, action, call_vars, session, err_streak, stat_matches, rid,
                   signal, decides, sends>>

NextLoop ==
    \/ start
    \/ shutdown
    \/ cancelled
    \/ fatal
    \/ session_close
    \/ \E data \in BalanceReplies : get_balance_returns(data)
    \/ \E reply \in {<<>>} \cup {<<l>> : l \in RoomLists} : list_rooms_returns(reply)
    \/ \E result \in JoinReplies : join_room_returns(result)
    \/ room_sleep_returns
    \/ iteration_ends
    \/ backoff_returns
    \/ \E reply \in {<<>>} \cup {<<r>> : r \in Raws(gs)} : get_state_returns(reply)
    \/ \E result \in SendReplies : send_action_returns(result)
    \/ \E result \in {<<>>, <<[left |-> TRUE]>>} : leave_room_returns(result)

SpecLoop == InitLoop /\ [][NextLoop]_vars

\* the event loop runs the coroutine on: a cancelled await raises, and the
\* close of the session returns
SpecLoopFair == SpecLoop /\ WF_vars(cancelled) /\ WF_vars(session_close)

----------------------------------------------------------------------------
\* Properties of RegionMemory (SpecMemory)

\* C1: after any sequence of record_explore and record_event calls every
\* score is within [0.0, 2.0], and a region whose score was never adjusted
\* (it is no key of _rvs) scores 1.0.
C1_ScoresBounded ==
    /\ \A i \in 1..Len(_rvs) : _rvs[i].score >= 0 /\ _rvs[i].score <= 20
    /\ \A r \in Regions :
          /\ rvs(_rvs, r) >= 0 /\ rvs(_rvs, r) <= 20
          /\ (\A i \in 1..Len(_rvs) : _rvs[i].region # r) => rvs(_rvs, r) = 10

\* C1: one region was driven to the lower clamp by failed explores and
\* events, another to the upper clamp.
C1_Witness ==
    \E r, s \in Regions :
        /\ rvs(_rvs, r) = 0 /\ _explores[r] >= 2
        /\ rvs(_rvs, s) = 20

\* C4: a zero-loot record_explore on a region with no loot recorded lowers
\* the score by 0.3 (down to the clamp) on the call that takes the explore
\* counter to 2, and leaves it unchanged on the first call and on the third
\* and every later call.
C4_FailPenaltyOnce ==
    [][\A r \in Regions :
          (_explores'[r] = _explores[r] + 1 /\ _loot_found'[r] = 0)
          => rvs(_rvs', r) = IF _explores'[r] = 2
                             THEN Max(0, rvs(_rvs, r) - 3)
                             ELSE rvs(_rvs, r)]_vars

----------------------------------------------------------------------------
\* Properties of best_region (SpecBest)

\* C5: best_region returns none only for an empty candidate list; otherwise
\* it returns the first candidate of the greatest score among those scoring
\* >= 0.5, or among all of them when every candidate is below 0.5.
C5_BestRegion ==
    LET sc(i) == rvs(_rvs, candidates[i])
        I     == 1..Len(candidates)
        W     == {i \in I : sc(i) >= 5}
        P     == IF W # {} THEN W ELSE I
    IN  /\ (best = <<>>) <=> (candidates = <<>>)
        /\ candidates # <<>> =>
              \E i \in P :
                  /\ best = <<candidates[i]>>
                  /\ \A j \in P : sc(j) <= sc(i)
                  /\ \A j \in P : j < i => sc(j) < sc(i)

\* C5: every candidate is below the floor, the best of them is not the first,
\* and it is returned.
C5_Witness ==
    /\ Len(candidates) >= 2
    /\ \A i \in 1..Len(candidates) : rvs(_rvs, candidates[i]) < 5
    /\ rvs(_rvs, candidates[1]) < rvs(_rvs, candidates[2])
    /\ best = <<candidates[2]>>

----------------------------------------------------------------------------
\* Properties of _win_prob (SpecWinProb)

\* the regression case: enemy at distance 80 with hp 40 outside the zone,
\* agent with a weapon of dps 20, hp 100 and full vision
PinCase ==
    /\ wp # <<>>
    /\ enemy.distance = 80 /\ enemy.hp = 40 /\ ~enemy.in_zone
    /\ gs.weapon # <<>> /\ gs.weapon[1].dps = 20
    /\ gs.hp = 100 /\ gs.vision_modifier = 10

InPinRange(p) == RLe(Rat(55, 100), p) /\ RLe(p, Rat(75, 100))

\* C7 as stated: in the regression case _win_prob is in [0.55, 0.75] for
\* every enemy dps.
C7_PinAllDps == PinCase => InPinRange(wp)

\* C7 as amended: in the regression case _win_prob is raw / (raw + 1) with
\* raw = 2000 / (64 * max(dps, 0.1)); for whole dps it is in [0.55, 0.75]
\* exactly when 11 <= dps <= 25, and at the default dps 10 it is 25/33.
C7_PinDpsRange ==
    PinCase =>
        /\ wp = Rat(2000 * 10, 2000 * 10 + 64 * Max(10 * enemy.dps, 1))
        /\ InPinRange(wp) <=> (11 <= enemy.dps /\ enemy.dps <= 25)
        /\ enemy.dps = 10 => wp = <<25, 33>>

\* C7: the regression case at the default enemy dps
C7_Witness == PinCase /\ enemy.dps = 10 /\ wp = <<25, 33>>

----------------------------------------------------------------------------
\* Properties of decide (SpecDecide).  They are stated on the fields of the
\* snapshot; decide writes only its target-lock fields.

Decided == action # NoAction

\* hp_pct < k
HpBelow(k) == IF gs.max_hp = 0 THEN 0 < k ELSE gs.hp * 100 < k * gs.max_hp

\* the zone trigger of step 1
ZoneTrigger ==
    \/ ~gs.zone.is_safe
    \/ gs.zone.distance < 50 /\ gs.zone.shrink_timer < 10
    \/ HpBelow(60) /\ gs.zone.distance < 80

\* the inventory holds a heal item
HealAvailable == \E k \in 1..Len(HEAL_PRIORITY) : Get(gs.inventory, HEAL_PRIORITY[k]) > 0

\* item is the first name of HEAL_PRIORITY with a count > 0
IsFirstHeal(item) ==
    \E k \in 1..Len(HEAL_PRIORITY) :
        /\ HEAL_PRIORITY[k] = item
        /\ Get(gs.inventory, item) > 0
        /\ \A j \in 1..(k - 1) : Get(gs.inventory, HEAL_PRIORITY[j]) <= 0

\* i is the first nearby weapon of the greatest score
IsBestWeapon(i) ==
    /\ i \in 1..Len(gs.weapons_nearby)
    /\ \A j \in 1..Len(gs.weapons_nearby) :
          /\ RLe(score(gs.weapons_nearby[j]), score(gs.weapons_nearby[i]))
          /\ j < i => RLt(score(gs.weapons_nearby[j]), score(gs.weapons_nearby[i]))

\* w is an upgrade over the held weapon
UpgradeOverHeld(w) ==
    \/ gs.weapon = <<>>
    \/ /\ gs.weapon # <<>>
       /\ LET s == score(w)
              o == score(gs.weapon[1])
          IN  \/ o[1] > 0 /\ (s[1] * o[2] - o[1] * s[2]) * 100 >= 15 * o[1] * s[2]
              \/ o[1] <= 0 /\ s[1] > 0

\* the weapon-upgrade rule of step 3
WeaponRule ==
    \E i \in 1..Len(gs.weapons_nearby) :
        /\ IsBestWeapon(i)
        /\ UpgradeOverHeld(gs.weapons_nearby[i])
        /\ gs.zone.distance > 100
        /\ ~(gs.zone.distance < 40 /\ gs.zone.shrink_timer < 8)

\* C2: whenever zone.is_safe is False, decide returns escape_zone, whatever
\* the other fields and the memory hold.
C2_UnsafeEscapes == (Decided /\ ~gs.zone.is_safe) => action.action = "escape_zone"

\* C2: unsafe, with a critical hp, a heal item and a weapon upgrade at hand
C2_Witness ==
    /\ Decided /\ ~gs.zone.is_safe
    /\ HpBelow(35) /\ HealAvailable
    /\ gs.weapon = <<>> /\ gs.weapons_nearby # <<>> /\ gs.zone.distance > 100
    /\ action.action = "escape_zone"

\* nothing of steps 1 to 7 matches
NoRuleMatches ==
    /\ ~ZoneTrigger
    /\ ~(HpBelow(60) /\ HealAvailable)
    /\ ~WeaponRule
    /\ _select_target(gs) = <<>>
    /\ _choose_region(gs, _rvs) = <<gs.current_region>>
    /\ \A i \in 1..Len(gs.loot_nearby) : Get(gs.inventory, gs.loot_nearby[i].item) >= 3

\* C3: decide returns one action of the seven kinds for every snapshot and
\* memory, empty lists included, and patrol when no rule of steps 1 to 7
\* matches.
C3_OneAction ==
    Decided =>
        /\ action.action \in {"escape_zone", "use_item", "move_to_weapon", "attack",
                              "move_to_region", "pick_loot", "patrol"}
        /\ NoRuleMatches => action.action = "patrol"
        /\ action.action = "patrol" => NoRuleMatches

\* C3: no enemies, loot or weapons, no held weapon, an empty inventory
C3_Witness ==
    /\ Decided
    /\ gs.enemies = <<>> /\ gs.loot_nearby = <<>> /\ gs.weapons_nearby = <<>>
    /\ gs.weapon = <<>> /\ DOMAIN gs.inventory = {}
    /\ action.action = "patrol"

\* enemy i is eligible
Eligible(i) ==
    /\ ~gs.enemies[i].in_zone
    /\ RLe(Rat(60, 100), _win_prob(gs, gs.enemies[i]))
    /\ _enemy_escape_prob(gs.enemies[i]) <= 40

\* win_prob * (1 - hp_pct / 100) / max(distance, 1)
Rank(i) ==
    LET e == gs.enemies[i]
    IN  RDiv(RMul(_win_prob(gs, e), RSub(RInt(1), RDiv(hp_pct(e), RInt(100)))),
             RInt(Max(e.distance, 1)))

\* C6: when steps 1 to 4 do not fire and some visible enemy is eligible,
\* decide attacks the first eligible enemy of the greatest rank, also when
\* every eligible enemy is at full health (rank 0).
C6_AttackBestEligible ==
    (/\ Decided
     /\ action.action \notin {"escape_zone", "use_item", "move_to_weapon"}
     /\ \E i \in 1..Len(gs.enemies) : Eligible(i))
    => \E i \in 1..Len(gs.enemies) :
          /\ Eligible(i)
          /\ \A j \in 1..Len(gs.enemies) :
                Eligible(j) => /\ RLe(Rank(j), Rank(i))
                               /\ j < i => RLt(Rank(j), Rank(i))
          /\ action = [action |-> "attack", target_id |-> gs.enemies[i].id]

\* C8: decide returns escape_zone exactly when the zone trigger holds, and
\* the action carries use_heal (the first available heal item) exactly when
\* hp_pct < 30 and a heal item is available.
C8_EscapeIffTrigger ==
    Decided =>
        /\ action.action = "escape_zone" <=> ZoneTrigger
        /\ action.action = "escape_zone" =>
              /\ action.use_heal # <<>> <=> (HpBelow(30) /\ HealAvailable)
              /\ action.use_heal # <<>> => IsFirstHeal(action.use_heal[1])

\* C8: hp 20%, zone.distance 30, shrink_timer 5 and a medkit: escape_zone
\* with the medkit, not use_item
C8_Witness ==
    /\ Decided
    /\ gs.hp = 20 /\ gs.max_hp = 100
    /\ gs.zone.is_safe /\ gs.zone.distance = 30 /\ gs.zone.shrink_timer = 5
    /\ DOMAIN gs.inventory = {"medkit"}
    /\ action.action = "escape_zone" /\ action.use_heal = <<"medkit">>

\* C9: when steps 1 and 2 do not fire, decide returns move_to_weapon exactly
\* when the first highest-scoring nearby weapon is an upgrade over the held
\* one, zone.distance > 100 and not (zone.distance < 40 and shrink_timer < 8),
\* and the action names that weapon.
C9_WeaponUpgrade ==
    (Decided /\ ~ZoneTrigger /\ ~(HpBelow(35) /\ HealAvailable)) =>
        /\ action.action = "move_to_weapon" <=> WeaponRule
        /\ action.action = "move_to_weapon" =>
              \E i \in 1..Len(gs.weapons_nearby) :
                  IsBestWeapon(i) /\ action.weapon_name = gs.weapons_nearby[i].name

\* C9: hp 80%, zone.distance 250, the pistol held, and a rifle scoring 30%
\* above it listed after a lesser weapon
C9_Witness ==
    /\ Decided
    /\ gs.hp = 80 /\ gs.max_hp = 100 /\ gs.zone.is_safe /\ gs.zone.distance = 250
    /\ gs.weapon = <<Pistol>>
    /\ Len(gs.weapons_nearby) = 2
    /\ gs.weapons_nearby[1].name = "smg" /\ gs.weapons_nearby[2].name = "rifle"
    /\ action = [action |-> "move_to_weapon", weapon_name |-> "rifle"]

\* C10: with the zone trigger false and a heal item held, hp_pct < 35 yields
\* use_item whatever weapon is nearby, 35 <= hp_pct < 60 yields use_item
\* exactly when the weapon-upgrade rule does not fire, and the item used is
\* the first of HEAL_PRIORITY with a count > 0.
C10_HealOrder ==
    (Decided /\ ~ZoneTrigger /\ HealAvailable) =>
        /\ HpBelow(35) => action.action = "use_item"
        /\ (~HpBelow(35) /\ HpBelow(60)) => (action.action = "use_item" <=> ~WeaponRule)
        /\ action.action = "use_item" => IsFirstHeal(action.item)

\* C10: at hp 50% with a heal item held, an acquirable upgrade is taken first
C10_Witness ==
    /\ Decided /\ ~ZoneTrigger /\ HealAvailable
    /\ ~HpBelow(35) /\ HpBelow(60)
    /\ WeaponRule
    /\ action.action = "move_to_weapon"

\* steps 1 to 5 did not return
PastCombat == action.action \in {"move_to_region", "pick_loot", "patrol"}

\* the regions the memory knows in the order of their first adjustment, or the
\* five defaults when it knows none
RegionCandidates ==
    IF _rvs # <<>> THEN [i \in 1..Len(_rvs) |-> _rvs[i].region]
    ELSE <<"central", "north", "south", "east", "west">>

\* i is the first candidate of the greatest score among those scoring >= 0.5,
\* or among all of them when none does
IsBestCandidate(i) ==
    LET sc(k) == rvs(_rvs, RegionCandidates[k])
        I     == 1..Len(RegionCandidates)
        Wr    == {k \in I : sc(k) >= 5}
        P     == IF Wr # {} THEN Wr ELSE I
    IN  /\ i \in P
        /\ \A j \in P : sc(j) <= sc(i)
        /\ \A j \in P : j < i => sc(j) < sc(i)

C12_EventFrame ==
    [][(call = NoCall /\ call'.op = "record_event") =>
        LET r == call'.region
            k == call'.event
            d == CASE k = "high_tier_weapon" -> 3
                   [] k = "kill"             -> 2
                   [] k = "zone_prone"       -> -5
                   [] k = "ambush"           -> -2
                   [] OTHER                  -> 0
            x == rvs(_rvs, r) + d
        IN  /\ _explores' = _explores
            /\ _loot_found' = _loot_found
            /\ IF k \in {"high_tier_weapon", "kill", "zone_prone", "ambush"}
               THEN /\ rvs(_rvs', r) = (IF x < 0 THEN 0 ELSE IF x > 20 THEN 20 ELSE x)
                    /\ Known(_rvs') = Known(_rvs) \cup {r}
                    /\ \A i \in 1..Len(_rvs) :
                          /\ _rvs'[i].region = _rvs[i].region
                          /\ _rvs[i].region # r => _rvs'[i] = _rvs[i]
               ELSE _rvs' = _rvs]_vars

\* C12: a zone_prone event on a region at 0.3 clamps it to 0.0 and leaves the
\* other region's score and the counters alone
C12_Witness ==
    /\ call = [op |-> "record_event", region |-> "south", event |-> "zone_prone"]
    /\ _rvs = <<[region |-> "north", score |-> 18], [region |-> "south", score |-> 0]>>
    /\ _explores["south"] = 1

----------------------------------------------------------------------------
\* Properties of RoomSelector.select (SpecSelect)

\* room i of the last select call is not full and, when its type is paid,
\* costs no more than the balance
Qualifies(i) ==
    LET room == call.rooms[i]
    IN  /\ room.current_players < room.max_players
        /\ room.type \in {"paid", "PAID", "Paid"} => room.entry_cost <= call.balance

\* C15: select returns none iff no room qualifies; otherwise it returns a
\* member of the input that is not full and, if paid, affordable, and that is
\* the first in list order of the qualifying rooms of the greatest current
\* player count.
C15_SelectRoom ==
    call.op = "select" =>
        LET Q == {i \in 1..Len(call.rooms) : Qualifies(i)}
        IN  /\ call.result = <<>> <=> Q = {}
            /\ Q # {} =>
                 \E i \in Q :
                    /\ call.result = <<call.rooms[i]>>
                    /\ \A j \in Q :
                          /\ call.rooms[j].current_players <= call.rooms[i].current_players
                          /\ j < i => call.rooms[j].current_players
                                        < call.rooms[i].current_players

\* C15: with a balance of 5 the paid room at cost 10 and the full room are
\* passed over, and of the two rooms left at three players the first is taken
C15_Witness ==
    /\ call.op = "select"
    /\ call.balance = 5
    /\ call.rooms = <<Room("e", 5, 8, "PAID", 10), Room("d", 3, 8, "paid", 5),
                      Room("b", 3, 4, "free", 0)>>
    /\ call.result = <<Room("d", 3, 8, "paid", 5)>>

----------------------------------------------------------------------------
\* Properties of the driving loop (SpecLoop, SpecLoopFair)

\* this step takes the reply None of the API call op
FailedCall(op) == call' # call /\ call'.op = op /\ ~call'.ok

\* C13: a failed or timed-out network call (balance refresh, room listing,
\* join, state poll, action submission) leaves the snapshot, gs.balance
\* included, and the RegionMemory as they were before the call.
C13_FailedCallKeepsState ==
    [][(\E op \in {"get_balance", "list_rooms", "join_room", "get_state", "send_action"} :
            FailedCall(op))
        => gs' = gs /\ Memory' = Memory]_vars

\* C14: in the match phase a state fetch is followed by at most one decide and
\* at most one send_action, the send never before its decide; no two API calls
\* are in flight together, and while a state fetch is in flight no action
\* decided before it is unsent or being sent.
C14_SequentialTicks ==
    /\ Cardinality(inflight) <= 1
    /\ decides <= 1
    /\ sends <= decides
    /\ "get_state" \in inflight => decides = 0 /\ sends = 0 /\ "send_action" \notin inflight

\* C14: a state fetch is in flight after an action of an earlier tick was
\* decided and its send_action completed
C14_Witness ==
    /\ pc = "get_state"
    /\ inflight = {"get_state"}
    /\ gs.tick = 1
    /\ action # NoAction

\* C16: once the task is cancelled in the loop, or an exception has left
\* _run, the session is eventually closed; after the signal the coroutine
\* never goes on in the loop or into the error handler; and at no suspension
\* point is there an action decided and not yet handed to send_action.
C16_SessionClosed ==
    /\ (signal \/ pc = "close") ~> (session = "closed")
    /\ [][signal => (pc' = pc \/ pc' \in {"close", "done"})]_vars
    /\ [](decides = sends)

\* C16: the task was cancelled while send_action was awaited, and the session
\* is closed
C16_Witness ==
    /\ signal
    /\ pc = "done"
    /\ session = "closed"
    /\ decides = 1
    /\ sends = 1

\* C18 as stated: when the state poll fails, decide is still called on the
\* stale snapshot and an action is still submitted for that tick.
C18_StaleDecide ==
    [][FailedCall("get_state")
        => decides' = decides + 1 /\ sends' = sends + 1 /\ "send_action" \in inflight']_vars

\* C18: when the state poll fails the tick is skipped: decide is not called,
\* no action is submitted, snapshot and RegionMemory are kept, and the loop
\* sleeps the tick interval before it polls again.
C18_SkipTick ==
    [][FailedCall("get_state")
        => /\ decides' = decides
           /\ sends' = sends
           /\ action' = action
           /\ gs' = gs
           /\ Memory' = Memory
           /\ inflight' = {}
           /\ pc' = "tick_sleep"]_vars

\* C18: a poll failed after an earlier one had delivered a snapshot
C18_Witness ==
    /\ call = [op |-> "get_state", ok |-> FALSE]
    /\ pc = "tick_sleep"
    /\ gs.tick = 1
    /\ decides = 0

----------------------------------------------------------------------------
\* Further properties of decide (SpecDecide)

\* the lock fields of g are both absent, or both set to the same enemy
LockConsistent(g) ==
    \/ g.target_id = <<>> /\ g.locked_target = <<>>
    \/ g.locked_target # <<>> /\ g.target_id = <<g.locked_target[1].id>>

\* C17: a decide call changes nothing but the target-lock fields of the
\* snapshot: the memory and every other field stay; on attack target_id is the
\* returned id and locked_target that enemy of the snapshot; on any other
\* action the lock fields stay or are both cleared; so the lock fields are
\* both set, target_id = locked_target.id, or both absent.
C17_DecideFrame ==
    [][action' # action =>
        /\ [gs' EXCEPT !.target_id = gs.target_id, !.locked_target = gs.locked_target] = gs
        /\ Memory' = Memory
        /\ action'.action = "attack" =>
              /\ gs'.target_id = <<action'.target_id>>
              /\ gs'.locked_target # <<>>
              /\ gs'.locked_target[1].id = action'.target_id
              /\ \E i \in 1..Len(gs.enemies) : gs.enemies[i] = gs'.locked_target[1]
        /\ action'.action # "attack" =>
              \/ gs'.target_id = gs.target_id /\ gs'.locked_target = gs.locked_target
              \/ gs'.target_id = <<>> /\ gs'.locked_target = <<>>
        /\ LockConsistent(gs')]_vars

\* C17: decide attacked an enemy other than e1, which alone was locked before
C17_Witness ==
    /\ Decided
    /\ action.action = "attack"
    /\ action.target_id # "e1"
    /\ gs.target_id = <<action.target_id>>
    /\ gs.locked_target # <<>>
    /\ gs.locked_target[1].id = action.target_id

\* loot entry i is of an item the inventory holds fewer than 3 of
BelowCap(i) == Get(gs.inventory, gs.loot_nearby[i].item) < 3

\* loot entry i is of a heal-class item
HealClass(i) ==
    gs.loot_nearby[i].item \in {"mega_shield", "large_heal", "medkit", "small_heal", "bandage"}

C20_NoInZoneAttack ==
    Decided =>
        /\ action.action = "attack" =>
              /\ gs.locked_target # <<>>
              /\ ~gs.locked_target[1].in_zone
              /\ \A i \in 1..Len(gs.enemies) :
                    gs.enemies[i].id = action.target_id => ~gs.enemies[i].in_zone
        /\ _select_target(gs) # <<>> => ~_select_target(gs)[1].in_zone
        /\ (/\ action.action \notin {"escape_zone", "use_item", "move_to_weapon"}
            /\ _select_target(gs) # <<>>)
              => /\ action = [action |-> "attack", target_id |-> _select_target(gs)[1].id]
                 /\ gs.locked_target = _select_target(gs)

\* C20: the weak enemy inside the zone is passed over for the one outside it
C20_Witness ==
    /\ Decided
    /\ Len(gs.enemies) = 2
    /\ gs.enemies[1].id = "e5"
    /\ gs.enemies[1].in_zone
    /\ gs.enemies[2].id = "e1"
    /\ action = [action |-> "attack", target_id |-> "e1"]

----------------------------------------------------------------------------
\* Match end in the driving loop (SpecLoop)

\* this step takes a state reply that parses and tells the end of the match
\* or the death of the agent
EndTick ==
    /\ call' # call
    /\ call'.op = "get_state"
    /\ call'.ok
    /\ ~call'.raw.bad
    /\ \/ call'.raw.status \in {"finished", "ended", "game_over", "dead"}
       \/ call'.raw.players_alive # <<>> /\ call'.raw.players_alive[1] <= 1
       \/ call'.raw.hp # <<>> /\ call'.raw.hp[1] <= 0

\* on such a tick nothing is decided or sent and leave_room is asked for; a
\* kill the reply reports is recorded for the region of the reply
C21_EndTick ==
    [][EndTick =>
        /\ decides' = decides
        /\ sends' = sends
        /\ action' = action
        /\ pc' = "leave_room"
        /\ inflight' = {"leave_room"}
        /\ (call'.raw.kills # <<>> /\ call'.raw.kills[1] > gs.kills) =>
              /\ call'.raw.region[1] \in Known(_rvs')
              /\ rvs(_rvs', call'.raw.region[1])
                    = Min(20, rvs(_rvs, call'.raw.region[1]) + 2)]_vars

\* when leave_room has returned, room, match and snapshot are as constructed
\* and the memory is as it was; no step ever forgets a region
C21_LeaveResets ==
    [][/\ (call' # call /\ call'.op = "leave_room") =>
              /\ room_id' = <<>>
              /\ match_id' = <<>>
              /\ gs' = GameState0
              /\ Memory' = Memory
       /\ Known(_rvs) \subseteq Known(_rvs')]_vars

\* at the top of the loop room_id and match_id are both set or both unset
C21_BothOrNeither ==
    pc = "get_balance" => (room_id = <<>> <=> match_id = <<>>)

C21_EndReached ==
    /\ pc = "end_sleep"
    /\ room_id = <<>>
    /\ match_id = <<>>
    /\ gs = GameState0
    /\ _rvs = <<[region |-> "north", score |-> 12]>>

====
